---- MODULE Spec2Model ----
(***************************************************************************)
(* Model of resolvelib's resolution engine (src/resolvelib/resolvers.py):  *)
(* Criterion, the state stack, the round loop of Resolution.resolve, the   *)
(* backtracking step and the result builder.  The provider (identify,      *)
(* find_matches, is_satisfied_by, get_dependencies, get_preference), the   *)
(* reporter and DirectedGraph live outside resolvers.py; they are modelled *)
(* from their contracts.                                                   *)
(***************************************************************************)
EXTENDS Integers, Sequences, FiniteSets, TLC

(* ---------------------------- bounds ----------------------------------- *)

\* largest max_rounds argument handed to resolve
MaxRounds == 7
\* largest total number of dependencies in a provider's whole table
MaxEdges == 4

(* ------------------------ provider-owned values ------------------------ *)

Names == {"A", "B", "C"}

\* the identifiers a root requirement may name
RootNames == {"A", "B"}

Versions == 1..2

\* the root marker: Python's None, as parent and as graph vertex
None == [name |-> "None", version |-> 0]

Cand(n, v) == [name |-> n, version |-> v]

Req(n, o, v) == [name |-> n, op |-> o, version |-> v]

Candidates == [name : Names, version : Versions]

\* X>=v for every version v, X<v for every version but the lowest
Requirements ==
    {Req(n, "ge", v) : n \in Names, v \in Versions}
        \cup {Req(n, "lt", v) : n \in Names, v \in Versions \ {1}}

RECURSIVE SeqsUpTo(_, _)
SeqsUpTo(S, n) ==
    IF n = 0 THEN {<<>>}
    ELSE LET shorter == SeqsUpTo(S, n - 1)
         IN  shorter \cup {Append(s, x) : s \in {t \in shorter : Len(t) = n - 1}, x \in S}

\* what get_dependencies may return for one candidate: nothing, one requirement,
\* or two requirements on one identifier that no candidate satisfies together
DepLists ==
    SeqsUpTo(Requirements, 1)
        \cup {p \in Requirements \X Requirements :
                 p[1].name = p[2].name /\ p[1].version = p[2].version
                    /\ p[1].op = "ge" /\ p[2].op = "lt"}

\* what resolve may be handed as requirements: up to two, the first one a lower
\* bound on "A"
RootLists ==
    {l \in SeqsUpTo({r \in Requirements : r.name \in RootNames}, 2) :
        l # <<>> => l[1].name = "A" /\ l[1].op = "ge"}

\* what resolve may be handed as max_rounds: the loop does the same up to its
\* last iteration whatever the limit, so the small limits and the largest do
MaxRoundsChoices == (0..2) \cup {MaxRounds}

\* the provider's rank of each identifier, lower first
Rank == [n \in Names |-> CASE n = "A" -> 1 [] n = "B" -> 2 [] OTHER -> 3]

Range(s) == {s[i] : i \in 1..Len(s)}

RECURSIVE SumLen(_, _)
SumLen(f, S) ==
    IF S = {} THEN 0
    ELSE LET c == CHOOSE x \in S : TRUE IN Len(f[c]) + SumLen(f, S \ {c})

\* provider.identify
Identify(r) == r.name

\* provider.is_satisfied_by: X>=v holds of X@w with w >= v, X<v of X@w with w < v
IsSatisfiedBy(r, c) ==
    /\ c.name = r.name
    /\ IF r.op = "ge" THEN c.version >= r.version ELSE c.version < r.version

RECURSIVE Descending(_, _, _)
Descending(n, r, v) ==
    IF v = 0 THEN <<>>
    ELSE IF IsSatisfiedBy(r, Cand(n, v))
         THEN <<Cand(n, v)>> \o Descending(n, r, v - 1)
         ELSE Descending(n, r, v - 1)

\* provider.find_matches: every known version that matches, highest first
FindMatches(prov, r) == Descending(r.name, r, prov.avail[r.name])

\* provider.get_dependencies
GetDependencies(prov, c) == prov.deps[c]

\* provider.get_preference: lower is preferred; this family ranks by identifier
GetPreference(prov, name, pinned, candidates, information) == Rank[name]

(* ------------------------------ Criterion ------------------------------ *)

RequirementInformation(r, p) == [requirement |-> r, parent |-> p]

Criterion(cands, infos, incompats) ==
    [candidates |-> cands, information |-> infos, incompatibilities |-> incompats]

FromRequirement(prov, r, parent) ==
    Criterion(FindMatches(prov, r), <<RequirementInformation(r, parent)>>, <<>>)

IterRequirement(crit) == [i \in 1..Len(crit.information) |-> crit.information[i].requirement]

IterParent(crit) == [i \in 1..Len(crit.information) |-> crit.information[i].parent]

\* the new requirement is recorded and the candidates are left as they were
MergedWithUnfiltered(self, r, parent) ==
    [ok |-> TRUE,
     crit |-> Criterion(self.candidates,
                        Append(self.information, RequirementInformation(r, parent)),
                        self.incompatibilities)]

\* the new requirement is recorded in front of the ones already there
MergedWithPrepending(self, r, parent) ==
    LET infos == <<RequirementInformation(r, parent)>> \o self.information
        cands == SelectSeq(self.candidates, LAMBDA c : IsSatisfiedBy(r, c))
    IN  IF cands = <<>>
        THEN [ok |-> FALSE, crit |-> self]
        ELSE [ok |-> TRUE, crit |-> Criterion(cands, infos, self.incompatibilities)]

\* ok = FALSE stands for raise RequirementsConflicted(self)
MergedWith(self, r, parent) ==
    LET infos == Append(self.information, RequirementInformation(r, parent))
        cands == SelectSeq(self.candidates, LAMBDA c : IsSatisfiedBy(r, c))
    IN  IF cands = <<>>
        THEN [ok |-> FALSE, crit |-> self]
        ELSE [ok |-> TRUE, crit |-> Criterion(cands, infos, self.incompatibilities)]

\* the candidate is recorded as incompatible and the first candidate is dropped
ExcludedOfFirst(self, candidate) ==
    LET incompats == Append(self.incompatibilities, candidate)
        cands == IF self.candidates = <<>> THEN <<>> ELSE Tail(self.candidates)
    IN  IF cands = <<>>
        THEN [ok |-> FALSE, crit |-> self]
        ELSE [ok |-> TRUE, crit |-> Criterion(cands, self.information, incompats)]

\* the candidate is recorded as incompatible and stays among the candidates
ExcludedOfKeeping(self, candidate) ==
    [ok |-> TRUE,
     crit |-> Criterion(self.candidates, self.information,
                        Append(self.incompatibilities, candidate))]

ExcludedOf(self, candidate) ==
    LET incompats == Append(self.incompatibilities, candidate)
        cands == SelectSeq(self.candidates, LAMBDA c : c # candidate)
    IN  IF cands = <<>>
        THEN [ok |-> FALSE, crit |-> self]
        ELSE [ok |-> TRUE, crit |-> Criterion(cands, self.information, incompats)]

(* --------------------------- State and stack --------------------------- *)

\* a dict in insertion order: a sequence of [key, val] with distinct keys
Keys(d) == {d[i].key : i \in 1..Len(d)}

IndexOf(d, k) == IF k \in Keys(d) THEN CHOOSE i \in 1..Len(d) : d[i].key = k ELSE 0

Get(d, k) == d[IndexOf(d, k)].val

\* d[k] = v
Put(d, k, v) ==
    IF k \in Keys(d) THEN [d EXCEPT ![IndexOf(d, k)].val = v]
    ELSE Append(d, [key |-> k, val |-> v])

\* d.pop(k, None)
Pop(d, k) == SelectSeq(d, LAMBDA e : e.key # k)

State(m, c) == [mapping |-> m, criteria |-> c]

Top(stack) == stack[Len(stack)]

DelTop(stack) == SubSeq(stack, 1, Len(stack) - 1)

PushNewState(stack) ==
    IF stack = <<>> THEN <<State(<<>>, <<>>)>>
    ELSE Append(stack, State(Top(stack).mapping, Top(stack).criteria))

(* ------------------------------ Resolution ----------------------------- *)

\* ok = FALSE passes RequirementsConflicted(crit) on
ContributeToCriteria(prov, criteria, name, r, parent) ==
    IF name \notin Keys(criteria)
    THEN LET c == FromRequirement(prov, r, parent)
         IN  [ok |-> TRUE, criteria |-> Put(criteria, name, c), crit |-> c]
    ELSE LET m == MergedWith(Get(criteria, name), r, parent)
         IN  IF m.ok THEN [ok |-> TRUE, criteria |-> Put(criteria, name, m.crit), crit |-> m.crit]
             ELSE [ok |-> FALSE, criteria |-> criteria, crit |-> m.crit]

\* a pin counts as satisfying whatever its criterion has come to require
IsCurrentPinSatisfyingAnyPin(mapping, name, crit) == name \in Keys(mapping)

\* a pin is looked at again whenever its criterion holds more than one requirement
IsCurrentPinSatisfyingOnce(mapping, name, crit) ==
    /\ name \in Keys(mapping)
    /\ Len(crit.information) <= 1
    /\ IsSatisfiedBy(crit.information[1].requirement, Get(mapping, name))

IsCurrentPinSatisfying(mapping, name, crit) ==
    /\ name \in Keys(mapping)
    /\ \A i \in 1..Len(crit.information) :
          IsSatisfiedBy(crit.information[i].requirement, Get(mapping, name))

RECURSIVE ContributeAll(_, _, _, _, _)
ContributeAll(prov, criteria, subdeps, i, parent) ==
    IF i > Len(subdeps) THEN [ok |-> TRUE, criteria |-> criteria]
    ELSE LET r == ContributeToCriteria(prov, criteria, Identify(subdeps[i]), subdeps[i], parent)
         IN  IF r.ok THEN ContributeAll(prov, r.criteria, subdeps, i + 1, parent)
             ELSE r

\* the handler returns without putting the backup back
RestoreNothing(criteria, backup) == criteria

\* criteria.clear(); criteria.update(backup)
RestoreCriteria(criteria, backup) == backup

CheckPinnability(prov, criteria, candidate) ==
    LET backup == criteria
        r == ContributeAll(prov, criteria, GetDependencies(prov, candidate), 1, candidate)
    IN  IF r.ok THEN [ok |-> TRUE, criteria |-> r.criteria]
        ELSE [ok |-> FALSE, criteria |-> RestoreCriteria(r.criteria, backup)]

\* the candidates tried in the order find_matches gave them
PinOrderForward(cands) == cands

\* the candidates in the order _pin_criterion tries them: reversed(candidates)
PinOrder(cands) == [i \in 1..Len(cands) |-> cands[Len(cands) + 1 - i]]

\* the loop of _pin_criterion from the i-th candidate of order on; tried holds the
\* candidates handed to _check_pinnability
RECURSIVE PinFrom(_, _, _, _, _)
PinFrom(prov, state, name, order, i) ==
    IF i > Len(order) THEN [ok |-> FALSE, state |-> state, tried |-> Range(order)]
    ELSE LET chk == CheckPinnability(prov, state.criteria, order[i])
         IN  IF ~chk.ok THEN PinFrom(prov, state, name, order, i + 1)
             ELSE [ok |-> TRUE,
                   state |-> State(Append(Pop(state.mapping, name),
                                          [key |-> name, val |-> order[i]]),
                                   chk.criteria),
                   tried |-> {order[j] : j \in 1..i}]

\* the first candidate of the criterion that can be pinned
PinCriterionForward(prov, state, name, crit) ==
    PinFrom(prov, state, name, crit.candidates, 1)

PinCriterion(prov, state, name, crit) ==
    PinFrom(prov, state, name, PinOrder(crit.candidates), 1)

\* one pass of the while loop per call; raised is "" when the loop breaks
RECURSIVE BacktrackToLastWorkableState(_, _)
BacktrackToLastWorkableState(stack, crit) ==
    LET popped == DelTop(stack)
    IN  IF popped = <<>>
        THEN [raised |-> "ResolutionImpossible", payload |-> IterRequirement(crit),
              stack |-> popped]
        ELSE IF Top(popped).mapping = <<>>
        THEN [raised |-> "KeyError", payload |-> <<>>, stack |-> popped]
        ELSE LET n == Len(popped)
                 last == Top(popped).mapping[Len(Top(popped).mapping)]
                 unpinned == [popped EXCEPT ![n].mapping = SubSeq(@, 1, Len(@) - 1)]
             IN  IF last.key \notin Keys(Top(popped).criteria)
                 THEN [raised |-> "KeyError", payload |-> <<>>, stack |-> unpinned]
                 ELSE LET ex == ExcludedOf(Get(Top(popped).criteria, last.key), last.val)
                      IN  IF ~ex.ok THEN BacktrackToLastWorkableState(unpinned, crit)
                          ELSE [raised |-> "", payload |-> <<>>,
                                stack |-> [unpinned EXCEPT ![n].criteria =
                                              Put(@, last.key, ex.crit)]]

\* the requirements loop of resolve: raised is "" when every root was contributed
RECURSIVE ContributeRoots(_, _, _, _)
ContributeRoots(prov, criteria, requirements, i) ==
    IF i > Len(requirements) THEN [raised |-> "", criteria |-> criteria, at |-> 0]
    ELSE LET r == ContributeToCriteria(prov, criteria, Identify(requirements[i]),
                                       requirements[i], None)
         IN  IF r.ok THEN ContributeRoots(prov, r.criteria, requirements, i + 1)
             \* e.requirements: RequirementsConflicted has a criterion and no
             \* requirements, so building ResolutionImpossible's payload fails
             ELSE [raised |-> "AttributeError", criteria |-> criteria, at |-> i]

\* every criterion, pinned or not
CriterionItemsAll(state) == state.criteria

\* the criteria whose pin is missing or no longer satisfying, in dict order
CriterionItems(state) ==
    SelectSeq(state.criteria, LAMBDA item : ~IsCurrentPinSatisfying(state.mapping, item.key, item.val))

Pinned(state, name) == IF name \in Keys(state.mapping) THEN Get(state.mapping, name) ELSE None

\* min(criterion_items, key=...): the first item of least preference value
MinItem(prov, state, items) ==
    LET key(i) == GetPreference(prov, items[i].key, Pinned(state, items[i].key),
                                items[i].val.candidates, items[i].val.information)
        best == CHOOSE i \in 1..Len(items) :
                   /\ \A j \in 1..Len(items) : key(i) <= key(j)
                   /\ \A j \in 1..(i - 1) : key(j) > key(i)
    IN  items[best]

(* ---------------------------- Result builder --------------------------- *)

\* the root marker as a key of all_keys and a vertex of the graph
NoneKey == "None"

\* all_keys[id(p)]: the key p is pinned under; "" stands for KeyError
AllKeys(mapping, p) ==
    IF p = None THEN NoneKey
    ELSE IF \E i \in 1..Len(mapping) : mapping[i].val = p
         THEN mapping[CHOOSE i \in 1..Len(mapping) : mapping[i].val = p].key
         ELSE ""

\* res is "True", "False" or "RecursionError".  path holds the keys of the calls
\* still open: connected only grows when a call returns True, so a call that
\* meets its own key again repeats itself until Python's recursion limit.
RECURSIVE HasRouteToRoot(_, _, _, _, _)
RECURSIVE RouteViaParents(_, _, _, _, _, _)
HasRouteToRoot(criteria, key, mapping, connected, path) ==
    IF key \in connected THEN [res |-> "True", connected |-> connected]
    ELSE IF key \notin Keys(criteria) THEN [res |-> "False", connected |-> connected]
    ELSE IF key \in path THEN [res |-> "RecursionError", connected |-> connected]
    ELSE RouteViaParents(criteria, key, mapping, connected, path \cup {key}, 1)

\* the search gives up after the first parent of a criterion
RouteViaFirstParent(criteria, key, mapping, connected, path, i) ==
    LET parents == IterParent(Get(criteria, key))
    IN  IF i > 1 \/ i > Len(parents) THEN [res |-> "False", connected |-> connected]
        ELSE LET pkey == AllKeys(mapping, parents[i])
             IN  IF pkey = "" THEN [res |-> "False", connected |-> connected]
                 ELSE IF pkey \in connected
                 THEN [res |-> "True", connected |-> connected \cup {key}]
                 ELSE LET r == HasRouteToRoot(criteria, pkey, mapping, connected, path)
                      IN  IF r.res = "True"
                          THEN [res |-> "True", connected |-> r.connected \cup {key}]
                          ELSE r

RouteViaParents(criteria, key, mapping, connected, path, i) ==
    LET parents == IterParent(Get(criteria, key))
    IN  IF i > Len(parents) THEN [res |-> "False", connected |-> connected]
        ELSE LET pkey == AllKeys(mapping, parents[i])
             IN  IF pkey = "" THEN RouteViaParents(criteria, key, mapping, connected, path, i + 1)
                 ELSE IF pkey \in connected
                 THEN [res |-> "True", connected |-> connected \cup {key}]
                 ELSE LET r == HasRouteToRoot(criteria, pkey, mapping, connected, path)
                      IN  IF r.res = "True"
                          THEN [res |-> "True", connected |-> r.connected \cup {key}]
                          ELSE IF r.res = "RecursionError" THEN r
                          ELSE RouteViaParents(criteria, key, mapping, r.connected, path, i + 1)

\* DirectedGraph: add and connect
Graph(vs, es) == [vertices |-> vs, edges |-> es]

\* the inner loop of _build_result: the edges into key from its pinned parents
ConnectParents(graph, mapping, key, crit) ==
    LET pkeys == {AllKeys(mapping, crit.information[i].parent) :
                     i \in 1..Len(crit.information)} \ {""}
    IN  Graph(graph.vertices \cup {key} \cup pkeys,
              graph.edges \cup {<<pk, key>> : pk \in pkeys})

Result(m, g, c) == [mapping |-> m, graph |-> g, criteria |-> c]

NoResult == Result(<<>>, Graph({}, {}), <<>>)

RECURSIVE BuildFrom(_, _, _, _)
BuildFrom(state, i, graph, connected) ==
    IF i > Len(state.criteria)
    THEN [raised |-> "",
          result |-> Result(SelectSeq(state.mapping, LAMBDA e : e.key \in connected),
                            graph, state.criteria)]
    ELSE LET key == state.criteria[i].key
             r == HasRouteToRoot(state.criteria, key, state.mapping, connected, {})
         IN  IF r.res = "RecursionError" THEN [raised |-> "RecursionError", result |-> NoResult]
             ELSE IF r.res = "False" THEN BuildFrom(state, i + 1, graph, r.connected)
             ELSE BuildFrom(state, i + 1,
                            ConnectParents(graph, state.mapping, key, state.criteria[i].val),
                            r.connected)

BuildResult(state) == BuildFrom(state, 1, Graph({NoneKey}, {}), {NoneKey})

(* ------------------------------- the run ------------------------------- *)

VARIABLES
    pc,            \* "new", "rounds", "resolved", "returned" or "raised"
    deps,          \* get_dependencies, on the candidates asked about so far
    avail,         \* highest known version, on the identifiers asked about so far
    requirements,  \* resolve's argument
    max_rounds,    \* resolve's argument
    round_index,   \* the loop variable of resolve
    states,        \* Resolution._states
    round,         \* the locals name, criterion, success of the latest iteration
    events,        \* the calls the reporter has received
    error,         \* the exception that left resolve, if any
    result         \* the Result returned, if any

vars == <<pc, deps, avail, requirements, max_rounds, round_index, states,
          round, events, error, result>>

Event(e, i) == [ev |-> e, index |-> i]

Error(t, reqs, n) == [type |-> t, requirements |-> reqs, round_count |-> n]

NoError == Error("", <<>>, 0)

NoRound == [name |-> "", criterion |-> Criterion(<<>>, <<>>, <<>>), success |-> FALSE,
            backtracked |-> FALSE]

Provider(d, a) == [deps |-> d, avail |-> a]

\* Resolver(provider, reporter): nothing resolved yet
Init ==
    /\ pc = "new"
    /\ deps = <<>>
    /\ avail = <<>>
    /\ requirements = <<>>
    /\ max_rounds = 0
    /\ round_index = 0
    /\ states = <<>>
    /\ round = NoRound
    /\ events = <<>>
    /\ error = NoError
    /\ result = NoResult

\* resolve up to reporter.starting(): the initial frame and the root requirements
ResolveStart ==
    /\ pc = "new"
    /\ \E reqs \in RootLists, mr \in MaxRoundsChoices :
       \E av \in [{Identify(r) : r \in Range(reqs)} -> Versions] :
          LET prov == Provider(deps, av)
              stack == PushNewState(states)
              roots == ContributeRoots(prov, Top(stack).criteria, reqs, 1)
          IN  /\ requirements' = reqs
              /\ max_rounds' = mr
              /\ avail' = av
              /\ states' = [stack EXCEPT ![Len(stack)].criteria = roots.criteria]
              /\ IF roots.raised = ""
                 THEN /\ pc' = "rounds"
                      /\ events' = Append(events, Event("starting", 0))
                      /\ error' = error
                 ELSE /\ pc' = "raised"
                      /\ events' = events
                      /\ error' = Error(roots.raised, <<>>, 0)
    /\ UNCHANGED <<deps, round_index, round, result>>

\* one iteration of the round loop
Round ==
    /\ pc = "rounds"
    /\ round_index < max_rounds
    /\ LET stack == PushNewState(states)
           curr == Top(stack)
           items == CriterionItems(curr)
           started == Append(events, Event("starting_round", round_index))
       IN  IF items = <<>>
           THEN /\ states' = DelTop(stack)
                /\ events' = Append(started, Event("ending", 0))
                /\ pc' = "resolved"
                /\ UNCHANGED <<deps, avail, round_index, round, error>>
           ELSE LET item == MinItem(Provider(deps, avail), curr, items)
                    order == PinOrder(item.val.candidates)
                IN  \E ext \in [Range(order) \ DOMAIN deps -> DepLists] :
                    \E av \in [Names \ DOMAIN avail -> Versions] :
                       LET prov == Provider(deps @@ ext, avail @@ av)
                           pin == PinCriterion(prov, curr, item.key, item.val)
                           tried == pin.tried
                           asked == {Identify(r) : r \in UNION {Range(prov.deps[c]) : c \in tried}}
                           pinned == [stack EXCEPT ![Len(stack)] = pin.state]
                           back == IF pin.ok THEN [raised |-> "", payload |-> <<>>, stack |-> pinned]
                                   ELSE BacktrackToLastWorkableState(pinned, item.val)
                       IN  /\ deps' = [c \in DOMAIN deps \cup tried |-> prov.deps[c]]
                           /\ SumLen(deps', DOMAIN deps') <= MaxEdges
                           /\ avail' = [n \in DOMAIN avail \cup asked |-> prov.avail[n]]
                           /\ states' = back.stack
                           /\ round' = [name |-> item.key, criterion |-> item.val,
                                        success |-> pin.ok, backtracked |-> ~pin.ok]
                           /\ IF back.raised = ""
                              THEN /\ events' = Append(started, Event("ending_round", round_index))
                                   /\ round_index' = round_index + 1
                                   /\ UNCHANGED <<pc, error>>
                              ELSE /\ events' = started
                                   /\ pc' = "raised"
                                   /\ error' = Error(back.raised, back.payload, 0)
                                   /\ UNCHANGED round_index
    /\ UNCHANGED <<requirements, max_rounds, result>>

\* the loop ran out: raise ResolutionTooDeep(max_rounds)
TooDeep ==
    /\ pc = "rounds"
    /\ round_index >= max_rounds
    /\ pc' = "raised"
    /\ error' = Error("ResolutionTooDeep", <<>>, max_rounds)
    /\ UNCHANGED <<deps, avail, requirements, max_rounds, round_index, states,
                   round, events, result>>

\* Resolver.resolve after Resolution.resolve returned: _build_result(resolution.state)
Build ==
    /\ pc = "resolved"
    /\ LET b == BuildResult(Top(states))
       IN  IF b.raised = ""
           THEN /\ pc' = "returned"
                /\ result' = b.result
                /\ error' = error
           ELSE /\ pc' = "raised"
                /\ result' = result
                /\ error' = Error(b.raised, <<>>, 0)
    /\ UNCHANGED <<deps, avail, requirements, max_rounds, round_index, states,
                   round, events>>

Next == ResolveStart \/ Round \/ TooDeep \/ Build

Spec == Init /\ [][Next]_vars

(* ------------------------- reading the states -------------------------- *)

\* a dict as the set of its (key, value) pairs
Items(d) == {<<d[i].key, d[i].val>> : i \in 1..Len(d)}

\* the iterations of the round loop that have started
RoundsStarted == Cardinality({i \in 1..Len(events) : events[i].ev = "starting_round"})

\* every answer the provider has given so far is the one this table gives
AnswersAre(table, versions) ==
    /\ \A c \in DOMAIN deps : deps[c] = table[c]
    /\ \A n \in DOMAIN avail : avail[n] = versions[n]

NoDeps == [c \in Candidates |-> <<>>]

(* ------------------------------- claims -------------------------------- *)

\* C1: in a returned Result every pinned candidate satisfies every requirement
\* recorded in its identifier's criterion and is none of its incompatibilities.
C1_SoundPinning ==
    pc = "returned" =>
        \A i \in 1..Len(result.mapping) :
            LET k == result.mapping[i].key
                c == result.mapping[i].val
            IN  /\ k \in Keys(result.criteria)
                /\ \A r \in Range(IterRequirement(Get(result.criteria, k))) : IsSatisfiedBy(r, c)
                /\ c \notin Range(Get(result.criteria, k).incompatibilities)

\* a Result returned after backtracking: an identifier of the mapping carries an
\* excluded candidate in its criterion and is pinned to another one
C1_Witness ==
    /\ pc = "returned"
    /\ \E i \in 1..Len(result.mapping) :
          LET crit == Get(result.criteria, result.mapping[i].key)
          IN  /\ crit.incompatibilities # <<>>
              /\ round.success

\* C2: resolve returns a Result or fails with ResolutionImpossible or
\* ResolutionTooDeep; no other error leaves the engine.
C2_ClosedFailures ==
    pc = "raised" => error.type \in {"ResolutionImpossible", "ResolutionTooDeep"}

\* C3: a root requirement that empties the criterion of its identifier makes
\* resolve fail with ResolutionImpossible, whose payload is the requirements of
\* that criterion followed by the new one, before reporter.starting().
RootConflict == ContributeRoots(Provider(deps, avail), <<>>, requirements, 1)

C3_RootConflict ==
    (pc # "new" /\ RootConflict.raised # "") =>
        LET r == requirements[RootConflict.at]
            c == Get(Top(states).criteria, Identify(r))
        IN  /\ error.type = "ResolutionImpossible"
            /\ error.requirements = Append(IterRequirement(c), r)
            /\ events = <<>>

(* ----------------------- scenarios of the claims ----------------------- *)

CandA1 == Cand("A", 1)
CandA2 == Cand("A", 2)
CandB1 == Cand("B", 1)
CandC1 == Cand("C", 1)

\* the calls of reporter.ending_round so far: the iterations that ran to their end
RoundsEnded == Cardinality({i \in 1..Len(events) : events[i].ev = "ending_round"})

\* resolve was called with these requirements, and the provider has answered
\* from this table so far
Scenario(roots, table, versions) ==
    /\ pc # "new"
    /\ requirements = roots
    /\ AnswersAre(table, versions)

\* backtrack on conflict: A@2 -> C>=2, A@1 -> C>=1, B@1 -> C<2; A@{2,1}, B@{1}, C@{2,1}
BacktrackDeps ==
    [c \in Candidates |->
        CASE c = CandA2 -> <<Req("C", "ge", 2)>>
          [] c = CandA1 -> <<Req("C", "ge", 1)>>
          [] c = CandB1 -> <<Req("C", "lt", 2)>>
          [] OTHER -> <<>>]

BacktrackVersions == [n \in Names |-> IF n = "B" THEN 1 ELSE 2]

BacktrackScenario ==
    Scenario(<<Req("A", "ge", 1), Req("B", "ge", 1)>>, BacktrackDeps, BacktrackVersions)

\* one version of everything
SingleVersions == [n \in Names |-> 1]

\* single root, single version: nothing depends on anything
SingleScenario == Scenario(<<Req("A", "ge", 1)>>, NoDeps, SingleVersions)

\* chain: A@1 -> B>=1
ChainDeps == [c \in Candidates |-> IF c = CandA1 THEN <<Req("B", "ge", 1)>> ELSE <<>>]

ChainScenario == Scenario(<<Req("A", "ge", 1)>>, ChainDeps, SingleVersions)

\* cycle: A@1 -> B>=1, B@1 -> A>=1
CycleDeps ==
    [c \in Candidates |->
        CASE c = CandA1 -> <<Req("B", "ge", 1)>>
          [] c = CandB1 -> <<Req("A", "ge", 1)>>
          [] OTHER -> <<>>]

CycleScenario == Scenario(<<Req("A", "ge", 1)>>, CycleDeps, SingleVersions)

\* every candidate some frame of the stack holds as excluded
Excluded ==
    UNION {UNION {Range(states[j].criteria[k].val.incompatibilities) :
                     k \in 1..Len(states[j].criteria)} : j \in 1..Len(states)}

\* every candidate some frame of the stack has pinned under name
PinsOf(name) ==
    {Get(states[j].mapping, name) :
        j \in {j \in 1..Len(states) : name \in Keys(states[j].mapping)}}

(* ---------------------------- claims, continued ------------------------ *)

\* C4: in the backtrack-on-conflict scenario the engine tries A@1 first (the last
\* of the candidates A@2, A@1), B@1 then narrows C to C@1 without a conflict:
\* no iteration backtracks, nothing is ever excluded, A is never pinned to A@2,
\* and resolve returns {A: A@1, B: B@1, C: C@1} once max_rounds allows the four
\* iterations it takes.
C4_NoBacktrackNeeded ==
    BacktrackScenario =>
        /\ ~round.backtracked
        /\ Excluded = {}
        /\ PinsOf("A") \subseteq {CandA1}
        /\ pc = "returned" =>
              /\ Items(result.mapping) = {<<"A", CandA1>>, <<"B", CandB1>>, <<"C", CandC1>>}
              /\ RoundsStarted = 4
        /\ pc = "raised" => error.type = "ResolutionTooDeep" /\ max_rounds < 4

\* the scenario ran to its Result
C4_Witness ==
    /\ BacktrackScenario
    /\ pc = "returned"
    /\ {CandA1, CandB1, CandC1} \subseteq DOMAIN deps

\* C4 as stated: the Result of the scenario is {A: A@1, B: B@1, C: C@1} and A@2
\* has ended among the incompatibilities of A
C4_AsStated ==
    (BacktrackScenario /\ pc = "returned") =>
        /\ Items(result.mapping) = {<<"A", CandA1>>, <<"B", CandB1>>, <<"C", CandC1>>}
        /\ CandA2 \in Range(Get(result.criteria, "A").incompatibilities)

\* the frame an iteration that is over started from, and the frame it left
RoundBase == states[Len(states) - 1]
RoundTop == states[Len(states)]

\* _check_pinnability of a candidate against the frame the iteration started from
PinnableInRound(prov, c) == CheckPinnability(prov, RoundBase.criteria, c)

\* C5: when _pin_criterion succeeds, the candidate left pinned, as the newest
\* entry of the mapping, is the LAST element of criterion.candidates for which
\* _check_pinnability succeeds: every candidate listed after it was tried and
\* is not pinnable, and the criteria are those its dependencies lead to.
C5_LastViablePinned ==
    (pc = "rounds" /\ round.success) =>
        LET cands == round.criterion.candidates
            prov == Provider(deps, avail)
            pinned == RoundTop.mapping[Len(RoundTop.mapping)]
        IN  /\ pinned.key = round.name
            /\ Keys(RoundTop.mapping) = Keys(RoundBase.mapping) \cup {round.name}
            /\ \E i \in 1..Len(cands) :
                  /\ cands[i] = pinned.val
                  /\ PinnableInRound(prov, cands[i]).ok
                  /\ RoundTop.criteria = PinnableInRound(prov, cands[i]).criteria
                  /\ \A j \in (i + 1)..Len(cands) :
                        /\ cands[j] \in DOMAIN deps
                        /\ ~PinnableInRound(prov, cands[j]).ok

\* a less preferred candidate was pinned after the one listed behind it failed
C5_Witness ==
    /\ pc = "rounds"
    /\ round.success
    /\ Len(round.criterion.candidates) = 2
    /\ RoundTop.mapping[Len(RoundTop.mapping)].val = round.criterion.candidates[1]
    /\ round.criterion.candidates[2] \in DOMAIN deps

\* whatever the provider may still answer about the candidates not asked about
Answers(c) == IF c \in DOMAIN deps THEN {deps[c]} ELSE DepLists

\* C5 as stated: the candidate pinned is the earliest element of candidates that
\* is pinnable, so no candidate listed before it is pinnable, whatever the
\* provider answers for it
C5_AsStated ==
    (pc = "rounds" /\ round.success) =>
        LET cands == round.criterion.candidates
            pinned == RoundTop.mapping[Len(RoundTop.mapping)]
        IN  \E i \in 1..Len(cands) :
               /\ cands[i] = pinned.val
               /\ \A j \in 1..(i - 1) : \A dl \in Answers(cands[j]) :
                     \A v \in Versions :
                        ~PinnableInRound(Provider((cands[j] :> dl) @@ deps,
                                                  avail @@ [n \in Names |-> v]),
                                         cands[j]).ok

\* C6 as stated: at most max_rounds iterations start, and a call that has started
\* its rounds and ends with neither a Result nor ResolutionImpossible ends with
\* ResolutionTooDeep(max_rounds).
C6_RoundBound ==
    /\ RoundsStarted <= max_rounds
    /\ (pc = "raised" /\ events # <<>> /\ events[Len(events)].ev # "ending"
            /\ error.type # "ResolutionImpossible") =>
          /\ error.type = "ResolutionTooDeep"
          /\ error.round_count = max_rounds

\* C7 as stated: the vertices of a Result's graph are the root marker and the
\* keys of its mapping.
C7_VerticesAreMapping ==
    pc = "returned" => result.graph.vertices = {NoneKey} \cup Keys(result.mapping)

\* the keys the parents of k's requirements are pinned under in the final frame
ParentKeys(state, k) ==
    LET parents == Range(IterParent(Get(state.criteria, k)))
    IN  {NoneKey : p \in parents \cap {None}}
            \cup {state.mapping[i].key :
                     i \in {i \in 1..Len(state.mapping) : state.mapping[i].val \in parents}}

\* the least set holding the root marker and every identifier with a parent in it
RECURSIVE PathToRoot(_, _)
PathToRoot(state, found) ==
    LET more == {k \in Keys(state.criteria) : ParentKeys(state, k) \cap found # {}}
    IN  IF more \subseteq found THEN found ELSE PathToRoot(state, found \cup more)

\* C8: in every Result, an identifier of criteria from which requirement parents,
\* each the pin of the next identifier, lead to the root marker is a key of the
\* mapping, pinned as in the final frame, and a vertex of the graph.
C8_Coverage ==
    pc = "returned" =>
        \A k \in Keys(result.criteria) \cap PathToRoot(Top(states), {NoneKey}) :
            /\ k \in Keys(result.mapping)
            /\ Get(result.mapping, k) = Get(Top(states).mapping, k)
            /\ k \in result.graph.vertices

\* a Result with an identifier that reaches the root through a later parent only:
\* no requirement of it comes from the root and its first parent is a pin that
\* was replaced
C8_Witness ==
    /\ pc = "returned"
    /\ \E k \in Keys(result.mapping) :
          LET parents == IterParent(Get(result.criteria, k))
          IN  /\ Len(parents) >= 2
              /\ None \notin Range(parents)
              /\ AllKeys(Top(states).mapping, parents[1]) = ""

\* C9: in the cycle scenario no more than three iterations start and none
\* backtracks; resolve returns {A: A@1, B: B@1} with the edges root->A, A->B and
\* B->A, and fails (with ResolutionTooDeep) only when max_rounds is below three.
C9_CycleTerminates ==
    CycleScenario =>
        /\ RoundsStarted <= 3
        /\ ~round.backtracked
        /\ pc = "returned" =>
              /\ Items(result.mapping) = {<<"A", CandA1>>, <<"B", CandB1>>}
              /\ result.graph.edges = {<<NoneKey, "A">>, <<"A", "B">>, <<"B", "A">>}
              /\ result.graph.vertices = {NoneKey, "A", "B"}
        /\ pc = "raised" => error.type = "ResolutionTooDeep" /\ max_rounds < 3
        /\ (pc = "resolved" /\ round_index = 2) =>
              IsCurrentPinSatisfying(Top(states).mapping, "A", Get(Top(states).criteria, "A"))

\* the cycle resolved under a limit with room to spare
C9_Witness ==
    /\ CycleScenario
    /\ pc = "returned"
    /\ max_rounds = MaxRounds
    /\ Len(Get(result.criteria, "A").information) = 2

\* C10: a resolution ends in the iteration after its last pin.  The single-root
\* scenario returns {A: A@1} in its 2nd iteration and the chain scenario returns
\* {A: A@1, B: B@1} in its 3rd; under a smaller max_rounds they fail with
\* ResolutionTooDeep.  Every Result comes from an iteration that pinned nothing,
\* after at least one ended iteration per pin.
C10_RoundCount ==
    /\ SingleScenario =>
          /\ pc = "returned" =>
                /\ Items(result.mapping) = {<<"A", CandA1>>}
                /\ RoundsStarted = 2
          /\ pc = "raised" => error.type = "ResolutionTooDeep" /\ max_rounds < 2
    /\ ChainScenario =>
          /\ pc = "returned" =>
                /\ Items(result.mapping) = {<<"A", CandA1>>, <<"B", CandB1>>}
                /\ RoundsStarted = 3
          /\ pc = "raised" => error.type = "ResolutionTooDeep" /\ max_rounds < 3
    /\ pc = "returned" =>
          /\ RoundsStarted = RoundsEnded + 1
          /\ RoundsEnded >= Len(Top(states).mapping)

\* the chain resolved: two pins, and the Result in the third iteration
C10_Witness ==
    /\ ChainScenario
    /\ pc = "returned"
    /\ CandB1 \in DOMAIN deps

\* C10 as stated: the single-root scenario returns after one iteration and the
\* chain scenario after two
C10_AsStated ==
    /\ (SingleScenario /\ pc = "returned") => RoundsStarted = 1
    /\ (ChainScenario /\ pc = "returned") => RoundsStarted = 2

(* ------------------------------ backtracking --------------------------- *)

\* the latest iteration could not pin, and its backtracking did not return: the
\* call ended inside _backtrack_to_last_workable_state
BacktrackExhausted ==
    /\ pc = "raised"
    /\ round.backtracked
    /\ events[Len(events)].ev = "starting_round"

\* the requirements of every criterion the exhausted chain can have met: the
\* trigger and the criteria of the frames that are left
ChainRequirements ==
    {IterRequirement(round.criterion)}
        \cup UNION {{IterRequirement(states[j].criteria[k].val) :
                        k \in 1..Len(states[j].criteria)} : j \in 1..Len(states)}

\* C11 as stated: when backtracking runs out of frames resolve fails with
\* ResolutionImpossible, whose payload is the requirements of the criterion that
\* conflicted last.
C11_ExhaustedIsImpossible ==
    BacktrackExhausted =>
        /\ error.type = "ResolutionImpossible"
        /\ error.requirements \in ChainRequirements

\* the latest iteration could not pin and its backtracking returned normally
BacktrackReturned == pc = "rounds" /\ round.backtracked

\* the frame below the current one: the checkpoint the round that made the
\* undone pin started from
Checkpoint == states[Len(states) - 1]

\* the parents of the requirements the criteria of a frame carry
ParentsIn(state) ==
    UNION {Range(IterParent(state.criteria[k].val)) : k \in 1..Len(state.criteria)}

\* C12 as stated: after backtracking has un-pinned (K, C) the current frame is
\* the checkpoint taken before the round that pinned C, but for criteria[K],
\* which now excludes C; no criterion carries a requirement whose parent is C.
C12_RoundUndone ==
    BacktrackReturned =>
        /\ Len(states) >= 2
        /\ \E k \in Keys(Top(states).criteria) :
              LET crit == Get(Top(states).criteria, k)
                  c == crit.incompatibilities[Len(crit.incompatibilities)]
              IN  /\ crit.incompatibilities # <<>>
                  /\ Keys(Top(states).criteria) = Keys(Checkpoint.criteria)
                  /\ \A n \in Keys(Checkpoint.criteria) \ {k} :
                        Get(Top(states).criteria, n) = Get(Checkpoint.criteria, n)
                  /\ ExcludedOf(Get(Checkpoint.criteria, k), c).ok
                  /\ crit = ExcludedOf(Get(Checkpoint.criteria, k), c).crit
                  /\ Pop(Top(states).mapping, k) = Pop(Checkpoint.mapping, k)
                  /\ c \notin ParentsIn(Top(states))

(* --------------------------- criteria of the stack --------------------- *)

\* every Criterion some frame of the stack holds
StackCriteria ==
    UNION {{states[j].criteria[k].val : k \in 1..Len(states[j].criteria)} :
              j \in 1..Len(states)}

\* C13 as stated: every Criterion stored in a frame of the stack has candidates.
C13_CandidatesNonEmpty ==
    \A crit \in StackCriteria : crit.candidates # <<>>

\* the requirements of criteria[k] that the pin of k in this frame does not satisfy
Unsatisfied(state, k) ==
    {i \in Range(Get(state.criteria, k).information) :
        ~IsSatisfiedBy(i.requirement, Get(state.mapping, k))}

\* C14: at every round boundary and in every frame, the candidate pinned for K
\* is none of criteria[K].incompatibilities and satisfies every requirement of
\* criteria[K].information that came from the root; a requirement it does not
\* satisfy is a dependency of a candidate the engine asked about (it arrived as
\* a sub-dependency, when K was already pinned or with K's own pin), and none is
\* left in the frame resolve ends with.
C14_PinsAgainstCriteria ==
    /\ \A j \in 1..Len(states) : \A k \in Keys(states[j].mapping) :
          /\ k \in Keys(states[j].criteria)
          /\ Get(states[j].mapping, k) \notin
                Range(Get(states[j].criteria, k).incompatibilities)
          /\ \A i \in Unsatisfied(states[j], k) :
                /\ i.parent # None
                /\ i.parent \in DOMAIN deps
                /\ i.requirement \in Range(deps[i.parent])
    /\ pc \in {"resolved", "returned"} =>
          \A k \in Keys(Top(states).mapping) : Unsatisfied(Top(states), k) = {}

\* a round has pinned a candidate whose dependency is a requirement on an
\* identifier pinned in an earlier round, and that pin does not satisfy it
C14_Witness ==
    /\ pc = "rounds"
    /\ round.success
    /\ \E k \in Keys(Checkpoint.mapping) \ {round.name} :
          /\ Unsatisfied(Top(states), k) # {}
          /\ Unsatisfied(Checkpoint, k) = {}

\* C14 as stated: in every frame, at every round boundary, every pin satisfies
\* every requirement of its criterion and is none of its incompatibilities
C14_AsStated ==
    \A j \in 1..Len(states) : \A k \in Keys(states[j].mapping) :
        /\ k \in Keys(states[j].criteria)
        /\ Unsatisfied(states[j], k) = {}
        /\ Get(states[j].mapping, k) \notin
              Range(Get(states[j].criteria, k).incompatibilities)

(* ------------------------------- pinning ------------------------------- *)

\* the criteria of a frame whose candidates the provider has all been asked about
Decided(state) ==
    {k \in Keys(state.criteria) :
        Range(Get(state.criteria, k).candidates) \subseteq DOMAIN deps}

\* C15: _check_pinnability of a candidate against the current frame either
\* succeeds or hands back exactly the criteria it was given; _pin_criterion that
\* returns false hands back the frame it was given, and one that returns true
\* changes the mapping only at its identifier; after a round that pinned, the
\* criteria of the frame are those its checkpoint and the pinned candidate's
\* dependencies give: the candidates that failed before it left nothing behind.
C15_AllOrNothing ==
    LET prov == Provider(deps, avail)
        curr == Top(states)
    IN  states # <<>> =>
        /\ \A c \in DOMAIN deps :
              LET chk == CheckPinnability(prov, curr.criteria, c)
              IN  ~chk.ok => chk.criteria = curr.criteria
        /\ \A k \in Decided(curr) :
              LET pin == PinCriterion(prov, curr, k, Get(curr.criteria, k))
              IN  /\ ~pin.ok => pin.state = curr
                  /\ pin.ok => Pop(pin.state.mapping, k) = Pop(curr.mapping, k)
        /\ (pc = "rounds" /\ round.success) =>
              LET pinned == RoundTop.mapping[Len(RoundTop.mapping)].val
              IN  /\ RoundTop.criteria = PinnableInRound(prov, pinned).criteria
                  /\ Pop(RoundTop.mapping, round.name) = Pop(RoundBase.mapping, round.name)

\* a round pinned a candidate after another one had failed on its second
\* dependency, its first one already contributed to the frame
C15_Witness ==
    /\ pc = "rounds"
    /\ round.success
    /\ \E c \in Range(round.criterion.candidates) \cap DOMAIN deps :
          /\ c # RoundTop.mapping[Len(RoundTop.mapping)].val
          /\ Len(deps[c]) = 2
          /\ ~PinnableInRound(Provider(deps, avail), c).ok
          /\ ContributeToCriteria(Provider(deps, avail), RoundBase.criteria,
                                  Identify(deps[c][1]), deps[c][1], c).ok

\* C16: a candidate recorded as incompatible for K in a frame is, in that frame
\* and in every frame above it, still recorded, absent from the candidates of
\* criteria[K] and not the pin of K; and the candidates a round tries (those of
\* the criterion it selected) hold none of that criterion's incompatibilities.
C16_NoRetry ==
    /\ \A j \in 1..Len(states) : \A k \in Keys(states[j].criteria) :
          \A c \in Range(Get(states[j].criteria, k).incompatibilities) :
             \A i \in j..Len(states) :
                /\ k \in Keys(states[i].criteria)
                /\ c \in Range(Get(states[i].criteria, k).incompatibilities)
                /\ c \notin Range(Get(states[i].criteria, k).candidates)
                /\ k \in Keys(states[i].mapping) => Get(states[i].mapping, k) # c
    /\ Range(round.criterion.candidates) \cap Range(round.criterion.incompatibilities) = {}

\* an identifier with an excluded candidate has been pinned again, two rounds or
\* more after the exclusion
C16_Witness ==
    /\ pc = "rounds"
    /\ round.success
    /\ round.criterion.incompatibilities # <<>>
    /\ Len(states) >= 3
    /\ round.name \in Keys(states[Len(states) - 2].criteria)
    /\ Get(states[Len(states) - 2].criteria, round.name).incompatibilities # <<>>

(* ---------------------------- result builder --------------------------- *)

\* C17 as stated: for every final frame a successful resolve leaves, the
\* reachability computation of _build_result finishes with an answer.
C17_BuilderTerminates ==
    pc = "resolved" => BuildResult(Top(states)).raised = ""

(* ------------------------------- reporter ------------------------------ *)

\* the calls a successful resolve of n pinning rounds makes on the reporter
RECURSIVE RoundEvents(_)
RoundEvents(n) ==
    IF n = 0 THEN <<Event("starting", 0)>>
    ELSE RoundEvents(n - 1)
            \o <<Event("starting_round", n - 1), Event("ending_round", n - 1)>>

\* C18 as stated: a successful resolve shows the reporter starting(), then
\* starting_round(i), ending_round(i) for the rounds that pinned, then
\* starting_round(n), ending() and nothing more; a resolve that fails shows it
\* starting() only if the roots did not conflict, the rounds that are over, at
\* most the starting_round of the round that raised, and never ending().
C18_ReporterOrder ==
    /\ pc = "new" => events = <<>>
    /\ pc = "rounds" => events = RoundEvents(round_index)
    /\ pc \in {"resolved", "returned"} =>
          events = RoundEvents(round_index)
                      \o <<Event("starting_round", round_index), Event("ending", 0)>>
    /\ pc = "raised" =>
          /\ \A i \in 1..Len(events) : events[i].ev # "ending"
          /\ \/ events = <<>>
             \/ events = RoundEvents(round_index)
             \/ events = RoundEvents(round_index)
                            \o <<Event("starting_round", round_index)>>
    /\ pc # "new" =>
          (events # <<>> <=> ContributeRoots(Provider(deps, avail), <<>>,
                                             requirements, 1).raised = "")

(* --------------------------- narrowing of criteria --------------------- *)

\* a is b with some elements left out, the order kept
RECURSIVE IsSubseq(_, _)
IsSubseq(a, b) ==
    IF a = <<>> THEN TRUE
    ELSE IF b = <<>> THEN FALSE
    ELSE IF Head(a) = Head(b) THEN IsSubseq(Tail(a), Tail(b))
    ELSE IsSubseq(a, Tail(b))

IsPrefix(a, b) == Len(a) <= Len(b) /\ SubSeq(b, 1, Len(a)) = a

\* later is earlier narrowed: fewer candidates, more requirements and exclusions
Narrowed(earlier, later) ==
    /\ IsSubseq(later.candidates, earlier.candidates)
    /\ IsPrefix(earlier.information, later.information)
    /\ IsPrefix(earlier.incompatibilities, later.incompatibilities)

\* each frame of the stack is the round boundary the frame above started from
StackNarrows ==
    \A j \in 1..Len(states) : \A i \in j..Len(states) :
        \A k \in Keys(states[j].criteria) :
            /\ k \in Keys(states[i].criteria)
            /\ Narrowed(Get(states[j].criteria, k), Get(states[i].criteria, k))

\* a round that pins leaves the frames it found as they were, Criterion objects
\* included, and puts its own frame on top
RoundKeepsFrames ==
    (pc = "rounds" /\ pc' = "rounds" /\ round'.success) =>
        /\ Len(states') = Len(states) + 1
        /\ SubSeq(states', 1, Len(states)) = states
        /\ \A k \in Keys(Top(states).criteria) :
              /\ k \in Keys(Top(states').criteria)
              /\ Narrowed(Get(Top(states).criteria, k), Get(Top(states').criteria, k))

\* C19: from one round boundary to a later one with no backtrack in between,
\* the candidates of every identifier are an order-preserving subsequence of the
\* earlier ones and the earlier information and incompatibilities are prefixes
\* of the later ones; the criteria of the earlier boundary stay as they were.
C19_MonotoneNarrowing == [][RoundKeepsFrames]_vars /\ []StackNarrows

\* a round has narrowed the candidates of an identifier that was there before
C19_Witness ==
    /\ pc = "rounds"
    /\ round.success
    /\ \E k \in Keys(RoundBase.criteria) :
          /\ Len(Get(RoundTop.criteria, k).candidates)
                < Len(Get(RoundBase.criteria, k).candidates)
          /\ Len(Get(RoundTop.criteria, k).information)
                > Len(Get(RoundBase.criteria, k).information)

\* C20: in every Criterion of every frame of the stack, and in the criterion the
\* latest round selected, no candidate is one of the incompatibilities.
C20_Disjoint ==
    \A crit \in StackCriteria \cup {round.criterion} :
        Range(crit.candidates) \cap Range(crit.incompatibilities) = {}

\* a criterion with an excluded candidate and a candidate left, narrowed by a
\* requirement after the exclusion
C20_Witness ==
    \E j \in 1..Len(states) : \E k \in Keys(states[j].criteria) :
        LET crit == Get(states[j].criteria, k)
        IN  /\ crit.incompatibilities # <<>>
            /\ crit.candidates # <<>>
            /\ j > 1
            /\ k \in Keys(states[j - 1].criteria)
            /\ Get(states[j - 1].criteria, k).incompatibilities # <<>>
            /\ Len(Get(states[j - 1].criteria, k).information) < Len(crit.information)

====
